---- MODULE Spec2Model ----
(***************************************************************************)
(* GigaChat chat page: the conversation session of src/js/chat.js          *)
(* (openConversation, connectWebSocket and its handlers) over the          *)
(* transport channel of src/js/api.js (ChatSocket.connect).                *)
(*                                                                         *)
(* The page is single-threaded: every action below is one run-to-          *)
(* completion task of the event loop (a click, the continuation of an      *)
(* await, a WebSocket event).                                              *)
(***************************************************************************)
EXTENDS Integers, Sequences, FiniteSets, TLC

----------------------------------------------------------------------------
(* Bounds of the model *)

MaxCalls == 2
MaxFrames == 2
\* The composer specification: calls, inbound frames and transmitted frames
ComposerCalls == 1
ComposerFrames == 1
MaxSent == 2
\* The channel specification: channels created
MaxChannels == 2
\* The page specification: calls
PageCalls == 1
\* The renderer specification: messages in the rendered list
MaxRendered == 2

----------------------------------------------------------------------------
(* Values *)

\* JavaScript null / undefined for identifiers and strings
Null == "null"
\* A null / absent created_at (falsy in `data.created_at || ...`)
NoTime == 0
\* wsConnection = null
NoSocket == 0

Friends == {"f1", "f2"}

\* POST /conversations {friend_id}: one conversation per friend pair
ConvOf(friendId) == IF friendId = "f1" THEN "c1" ELSE "c2"

\* WebSocket.readyState
CONNECTING == 0
OPEN == 1
CLOSING == 2
CLOSED == 3

\* First locally generated message id (crypto.randomUUID); server ids are below
LocalIdBase == 100

Msg(id, conv, sender, content, at) ==
    [id |-> id, conversation_id |-> conv, sender_id |-> sender,
     content |-> content, created_at |-> at]

\* GET /conversations/{id}/messages: the bodies the server may answer with.
\* hasMessages = FALSE is a body without a messages field.
HistoryBodies(conv) ==
    { [hasMessages |-> FALSE, messages |-> << >>],
      [hasMessages |-> TRUE, messages |-> << Msg(1, conv, "f1", "hi", 2) >>],
      [hasMessages |-> TRUE,
       messages |-> << Msg(2, conv, "me", "b", 3), Msg(1, conv, "f1", "hi", 2),
                       Msg(1, conv, "f1", "hi", 2) >>] }

\* POST /conversations: the bodies the server may answer with
\* (conversation_id = Null is a body without the field).
LookupBodies(friendId) ==
    { [isNull |-> FALSE, conversation_id |-> ConvOf(friendId)],
      [isNull |-> FALSE, conversation_id |-> Null],
      [isNull |-> TRUE, conversation_id |-> Null] }

\* Inbound WebSocket frames (event.data). kind "object": JSON text of an
\* object with the given fields; "null": the JSON text null; "text": text
\* that is not JSON.
ObjectFrame(sender, content, at) ==
    [kind |-> "object", text |-> "", sender_id |-> sender, content |-> content,
     created_at |-> at]
TextFrame(text) ==
    [kind |-> "text", text |-> text, sender_id |-> Null, content |-> Null,
     created_at |-> NoTime]
NullFrame ==
    [kind |-> "null", text |-> "null", sender_id |-> Null, content |-> Null,
     created_at |-> NoTime]

Frames ==
    { ObjectFrame("f1", "yo", 4), ObjectFrame("me", "ok", NoTime),
      ObjectFrame("f1", "", 4), ObjectFrame("f1", Null, 4), NullFrame,
      TextFrame("oops"), ObjectFrame("f1", "late", 1) }

\* A JSON value that has no conversion to a string: an object whose own
\* toString is null, as in the frame {"content": {"toString": null}}
Unprintable == "{toString:null}"

\* A frame whose content is such an object
UnprintableFrame == ObjectFrame("f1", Unprintable, 4)

\* new Date() at the arrival of a frame
ArrivalTimes == {5}

NoFrame == TextFrame("")

\* The echo of a message the user sent: no created_at in the payload
EchoFrame == ObjectFrame("me", "ok", NoTime)

\* chat.js:29
MAX_MESSAGE_LENGTH == 500

\* A string of the composer: len characters that are not white space with
\* pad white-space characters around them
Text(pad, len) == [pad |-> pad, len |-> len]
EmptyText == Text(0, 0)

\* String.prototype.trim and String.prototype.length
Trim(text) == Text(0, text.len)
Length(text) == text.pad + text.len

\* What the user may leave in the textarea (typed, pasted or restored)
Drafts ==
    { EmptyText, Text(2, 0),
      Text(0, MAX_MESSAGE_LENGTH), Text(1, MAX_MESSAGE_LENGTH),
      Text(0, MAX_MESSAGE_LENGTH + 1) }

\* A string the directory handles is the sequence of its characters. A
\* missing or null string field is the empty string: the code tests these
\* fields only for truthiness, where the three are alike.
EmptyString == << >>

\* String.prototype.toLowerCase on the characters that occur.
ToLowerCase(str) ==
    [i \in 1 .. Len(str) |->
        CASE str[i] = "A" -> "a"
          [] str[i] = "B" -> "b"
          [] str[i] = "I" -> "i"
          [] str[i] = "L" -> "l"
          [] OTHER -> str[i]]

\* String.prototype.includes: sub occurs in str at some offset.
Includes(str, sub) ==
    \E k \in 0 .. Len(str) :
        /\ k + Len(sub) <= Len(str)
        /\ \A i \in 1 .. Len(sub) : str[k + i] = sub[i]

\* a || b on strings.
OrElse(a, b) == IF a # EmptyString THEN a ELSE b

\* A FriendInfo of GET /friends.
Friend(id, username, displayName) ==
    [friend_id |-> id, username |-> username, display_name |-> displayName]

Al == Friend("f1", << "a", "l" >>, << "A", "L", "i" >>)
Bo == Friend("f2", << "b", "a" >>, EmptyString)

\* The arrays of FriendInfo the server answers with.
FriendLists == { << >>, << Al >>, << Al, Bo >>, << Bo, Al >> }

\* The outcomes of a fulfilled GET /friends: a body that is not JSON (null),
\* an object without a truthy friends field, and an object with an array of
\* FriendInfo (api.js:196-199).
FriendsBody(isNull, hasFriends, list) ==
    [isNull |-> isNull, hasFriends |-> hasFriends, friends |-> list]

FriendsBodies ==
    { FriendsBody(TRUE, FALSE, << >>), FriendsBody(FALSE, FALSE, << >>) }
    \cup { FriendsBody(FALSE, TRUE, list) : list \in FriendLists }

\* chat.js:138-144, whether renderFriendList keeps friend f under filter.
Matches_CaseSensitive(f, filter) ==
    \/ Includes(f.username, filter)
    \/ Includes(f.display_name, filter)

Matches(f, filter) ==
    \/ Includes(ToLowerCase(f.username), ToLowerCase(filter))
    \/ Includes(ToLowerCase(f.display_name), ToLowerCase(filter))

\* chat.js:138-144, the local `filtered` of renderFriendList.
Filtered(friendList, filter) ==
    IF filter # EmptyString
    THEN LET Keep(f) == Matches(f, filter) IN SelectSeq(friendList, Keep)
    ELSE friendList

\* chat.js:161-181 and 185-196, the .friend-item elements with the data
\* their click handlers pass to openConversation.
FriendItems(filtered) ==
    [i \in 1 .. Len(filtered) |->
        [friendId |-> filtered[i].friend_id,
         displayName |-> OrElse(OrElse(filtered[i].display_name,
                                       filtered[i].username), << "?" >>)]]

FallbackName == << "U", "s", "e", "r" >>

\* chat.js:401-405. Array.prototype.find returns the first match.
GetFriendName_UsernameFirst(friendList, senderId) ==
    LET hits == { i \in 1 .. Len(friendList) : friendList[i].friend_id = senderId }
    IN  IF hits = {} THEN FallbackName
        ELSE LET f == friendList[CHOOSE i \in hits : \A j \in hits : i <= j]
             IN  OrElse(OrElse(f.username, f.display_name), FallbackName)

GetFriendName(friendList, senderId) ==
    LET hits == { i \in 1 .. Len(friendList) : friendList[i].friend_id = senderId }
    IN  IF hits = {} THEN FallbackName
        ELSE LET f == friendList[CHOOSE i \in hits : \A j \in hits : i <= j]
             IN  OrElse(OrElse(f.display_name, f.username), FallbackName)

\* What the search box can hold.
Queries ==
    { EmptyString, << "a" >>, << "A" >>, << "l", "i" >>, << "L" >>,
      << "b" >>, << "x" >> }

\* currentUser as JSON.parse of localStorage "gigachat_user" leaves it, and
\* the bodies GET /me and GET /profile/me are fulfilled with.
User(id, username) == [user_id |-> id, username |-> username]
NoUser == User(Null, EmptyString)
StoredUsers == { NoUser, User("me", << "m", "e" >>), User("f9", << "o" >>) }
MeBodies == { [isNull |-> TRUE, user_id |-> Null], [isNull |-> FALSE, user_id |-> "me"] }
ProfileBodies ==
    { [isNull |-> TRUE, username |-> EmptyString],
      [isNull |-> FALSE, username |-> << "m", "e" >>] }

----------------------------------------------------------------------------
(* State *)

VARIABLES
    activeFriendId,         \* chat.js:15
    activeConversationId,   \* chat.js:14
    wsConnection,           \* chat.js:16, an index of sockets or NoSocket
    messages,               \* chat.js:17
    messagesArea,           \* what #messages-area shows
    connectionStatus,       \* what #connection-status shows
    calls,                  \* the openConversation invocations, in order
    sockets,                \* the WebSockets created so far, in order
    received,               \* the number of frames received so far
    baseline,               \* `messages` when the held channel was created
    delivered,              \* the frames delivered since the session was reset
    composerText,           \* composerTextarea.value
    sent,                   \* the frames handed to WebSocket.send, in order
    page,                   \* how far init() has come
    currentUser,            \* chat.js:11
    friends,                \* chat.js:13
    friendListEl,           \* the friend items #friend-list shows
    lastOp                  \* the task that ran last

\* The state of the page outside the conversation session.
directory == << page, currentUser, friends, friendListEl >>

vars == << activeFriendId, activeConversationId, wsConnection, messages,
           messagesArea, connectionStatus, calls, sockets, received, baseline,
           delivered, composerText, sent, page, currentUser, friends,
           friendListEl, lastOp >>

\* The record of the task that ran last. handed lists the payloads a message
\* event handed to onMessage; outcome tells how a call of the channel's
\* send or close ended; closedSinceInvoke tells whether a close or error
\* event was delivered since openConversation was last invoked.
Op(name, call, sock, body, frame) ==
    [op |-> name, call |-> call, sock |-> sock, body |-> body, frame |-> frame,
     handed |-> << >>, outcome |-> "none", args |-> << >>, result |-> << >>,
     closedSinceInvoke |->
        IF name \in {"SocketClosed", "SocketError"} THEN TRUE
        ELSE IF name \in {"init", "OpenConversation"} THEN FALSE
        ELSE lastOp.closedSinceInvoke]

NoBody == [hasMessages |-> FALSE, messages |-> << >>]

Init ==
    /\ activeFriendId = Null
    /\ activeConversationId = Null
    /\ wsConnection = NoSocket
    /\ messages = << >>
    /\ messagesArea = "empty-state"
    /\ connectionStatus = "hidden"
    /\ calls = << >>
    /\ sockets = << >>
    /\ received = 0
    /\ baseline = << >>
    /\ delivered = << >>
    /\ composerText = EmptyText
    /\ sent = << >>
    /\ page = "ready"
    /\ currentUser = User("me", << "m", "e" >>)
    /\ friends = << Al, Bo >>
    /\ friendListEl = FriendItems(friends)
    /\ lastOp = Op("init", 0, 0, NoBody, NoFrame)

----------------------------------------------------------------------------
(* Transport channel: ChatSocket.connect and the WebSocket under it *)

\* The object ChatSocket.connect returns, with the WebSocket it wraps.
\* by, closeCalled and closeEvents record the history of the socket: the
\* call that created it, whether close() was called on the wrapper, and the
\* number of close events it has dispatched to the handlers.
NewSocket(conversationId, call) ==
    [conversationId |-> conversationId, readyState |-> CONNECTING,
     failed |-> FALSE, closeCalled |-> FALSE, closeEvents |-> 0, by |-> call]

\* Variant of Close: the socket starts closing whatever its state
Close_Reopens(sock) ==
    [sock EXCEPT !.readyState = CLOSING,
                 !.failed = (sock.readyState = CONNECTING),
                 !.closeCalled = TRUE]

\* close() of the wrapper: WebSocket.close(). Nothing happens when the
\* socket is closing or closed; closing a socket that is still connecting
\* fails the connection.
Close(sock) ==
    IF sock.readyState \in {CLOSING, CLOSED}
    THEN [sock EXCEPT !.closeCalled = TRUE]
    ELSE [sock EXCEPT !.readyState = CLOSING,
                      !.failed = (sock.readyState = CONNECTING),
                      !.closeCalled = TRUE]

NullData ==
    [isNull |-> TRUE, sender_id |-> Null, content |-> Null, created_at |-> NoTime]

\* JSON.parse(event.data): ok = FALSE when it throws
JSONParse(frame) ==
    [ok |-> frame.kind # "text",
     data |-> IF frame.kind = "object"
              THEN [isNull |-> FALSE, sender_id |-> frame.sender_id,
                    content |-> frame.content, created_at |-> frame.created_at]
              ELSE NullData]

\* Variant of ListenerData: a frame that does not parse is dropped
ListenerData_Discard(frame) ==
    IF JSONParse(frame).ok
    THEN JSONParse(frame).data
    ELSE NullData

\* The message listener: what it hands to callbacks.onMessage
ListenerData(frame) ==
    IF JSONParse(frame).ok
    THEN JSONParse(frame).data
    ELSE [isNull |-> FALSE, sender_id |-> Null, content |-> frame.text,
          created_at |-> NoTime]

\* event.data, the text of the frame
EventData(frame) ==
    IF frame.kind = "object"
    THEN ToString(<< frame.sender_id, frame.content, frame.created_at >>)
    ELSE frame.text

\* The payload the catch block of the message listener hands to onMessage
Fallback(frame) ==
    [isNull |-> FALSE, sender_id |-> Null, content |-> EventData(frame),
     created_at |-> NoTime]

\* WebSocket.send: throws while the socket is connecting, transmits while it
\* is open, and discards the data once it is closing or closed
WebSocketSend(sock) ==
    IF sock.readyState = CONNECTING THEN "throws"
    ELSE IF sock.readyState = OPEN THEN "transmitted"
    ELSE "discarded"

\* Variant of SendOutcome: no test of readyState
SendOutcome_NoStateCheck(sock) == WebSocketSend(sock)

\* send(content) of the wrapper: socket.send when the socket is open, a
\* console warning otherwise
SendOutcome(sock) ==
    IF sock.readyState = OPEN THEN WebSocketSend(sock) ELSE "warned"

\* send(content) of the wrapper: the frame is JSON.stringify({content})
Send(s, content) ==
    sent' = IF SendOutcome(sockets[s]) = "transmitted"
            THEN Append(sent, [sock |-> s, frame |-> [content |-> content]])
            ELSE sent

----------------------------------------------------------------------------
(* Conversation session *)

\* Variant of Accepted: the guard tests the payload only, not its content
Accepted_NoContentCheck(data) == ~data.isNull

\* onMessage: `if (!data || !data.content) return;`
Accepted(data) == ~data.isNull /\ data.content # Null /\ data.content # ""

\* Variant of PushMessage: the message is put at the head (unshift)
PushMessage_Front(msgs, conversationId, data, id, now) ==
    << Msg(id, conversationId, data.sender_id, data.content,
           IF data.created_at # NoTime THEN data.created_at ELSE now) >> \o msgs

\* onMessage: messages.push({...})
PushMessage(msgs, conversationId, data, id, now) ==
    Append(msgs, Msg(id, conversationId, data.sender_id, data.content,
                     IF data.created_at # NoTime THEN data.created_at ELSE now))

\* renderMessages() throws: escapeHtml(msg.content) assigns the content to
\* div.textContent, which converts it to a string
RenderThrows(msgs) == \E i \in 1 .. Len(msgs) : msgs[i].content = Unprintable

\* onMessage(data): the array it leaves behind
OnMessage(msgs, conversationId, data, id, now) ==
    IF Accepted(data) THEN PushMessage(msgs, conversationId, data, id, now) ELSE msgs

\* Variant of HistoryMessages: the fetched sequence is reversed
HistoryMessages_Reversed(body) ==
    IF body.hasMessages
    THEN [i \in 1 .. Len(body.messages) |-> body.messages[Len(body.messages) + 1 - i]]
    ELSE << >>

\* `historyData.messages || []`
HistoryMessages(body) == IF body.hasMessages THEN body.messages ELSE << >>

\* let API_BASE = "": no base URL is configured on the chat page
API_BASE == ""

\* request(method, path, body): the fetch it issues
Request(method, path, body) ==
    [url |-> << API_BASE, path >>, method |-> method, credentials |-> "include",
     body |-> body]

\* Variant of ConversationsStart: the request carries a per-call counter
ConversationsStart_Counted(friendId) ==
    Request("POST", "/conversations",
            [friend_id |-> friendId, attempt |-> Len(calls) + 1])

\* GigaAPI.Conversations.start(friendId)
ConversationsStart(friendId) ==
    Request("POST", "/conversations", [friend_id |-> friendId])

\* One invocation of openConversation: where it stands (pc), the conversation
\* its history request was issued for, and how its two requests ended
\* (lookup: "pending", "id", "no-id", "failed"; history: "pending", "ok",
\* "failed", where "failed" is a rejection or a null body), and the lookup
\* request it issued.
NewCall(friendId) ==
    [friendId |-> friendId, pc |-> "await-lookup", requested |-> Null,
     lookup |-> "pending", history |-> "pending",
     request |-> ConversationsStart(friendId)]

\* Variant of ConnectWebSocket: a held channel is not closed first
ConnectWebSocket_NoClose(conversationId, call) ==
    /\ sockets' = Append(sockets, NewSocket(conversationId, call))
    /\ wsConnection' = Len(sockets) + 1
    /\ connectionStatus' = "reconnecting"

\* connectWebSocket(conversationId), reached from the call `call`
ConnectWebSocket(conversationId, call) ==
    LET closed == IF wsConnection # NoSocket
                  THEN [sockets EXCEPT ![wsConnection] = Close(@)]
                  ELSE sockets
    IN  /\ sockets' = Append(closed, NewSocket(conversationId, call))
        /\ wsConnection' = Len(sockets) + 1
        /\ connectionStatus' = "reconnecting"

\* Variant of Catch: the failure is recorded but no error is shown
Catch_Silent(call, lookup, history) ==
    /\ UNCHANGED messagesArea
    /\ calls' = [calls EXCEPT ![call].pc = "caught", ![call].lookup = lookup,
                              ![call].history = history]

\* The catch branch of openConversation
Catch(call, lookup, history) ==
    /\ messagesArea' = "error"
    /\ calls' = [calls EXCEPT ![call].pc = "caught", ![call].lookup = lookup,
                              ![call].history = history]

\* Variant of OpenConversation: `messages` is left as it is until the history
\* arrives
OpenConversation_KeepsMessages(friendId) ==
    /\ Len(calls) < MaxCalls
    /\ activeFriendId' = friendId
    /\ IF wsConnection # NoSocket
       THEN sockets' = [sockets EXCEPT ![wsConnection] = Close(@)]
       ELSE sockets' = sockets
    /\ wsConnection' = NoSocket
    /\ messagesArea' = "spinner"
    /\ calls' = Append(calls, NewCall(friendId))
    /\ lastOp' = Op("OpenConversation", Len(calls) + 1, wsConnection, NoBody, NoFrame)
    /\ baseline' = << >>
    /\ delivered' = << >>
    /\ UNCHANGED << activeConversationId, connectionStatus, received, messages >>
    /\ UNCHANGED << composerText, sent >>
    /\ UNCHANGED directory

\* openConversation(friendId, displayName) up to its first await
OpenConversation(friendId) ==
    /\ Len(calls) < MaxCalls
    /\ activeFriendId' = friendId
    /\ IF wsConnection # NoSocket
       THEN sockets' = [sockets EXCEPT ![wsConnection] = Close(@)]
       ELSE sockets' = sockets
    /\ wsConnection' = NoSocket
    /\ messages' = << >>
    /\ messagesArea' = "spinner"
    /\ calls' = Append(calls, NewCall(friendId))
    /\ lastOp' = Op("OpenConversation", Len(calls) + 1, wsConnection, NoBody, NoFrame)
    /\ baseline' = << >>
    /\ delivered' = << >>
    /\ UNCHANGED << activeConversationId, connectionStatus, received >>
    /\ UNCHANGED << composerText, sent >>
    /\ UNCHANGED directory

\* Variant of LookupFulfilled: no `if (!activeConversationId) throw`
LookupFulfilled_NoIdCheck(call, convData) ==
    /\ calls[call].pc = "await-lookup"
    /\ lastOp' = Op("LookupFulfilled", call, wsConnection, NoBody, NoFrame)
    /\ IF convData.isNull
       THEN /\ Catch(call, "failed", "pending")
            /\ UNCHANGED activeConversationId
       ELSE /\ activeConversationId' = convData.conversation_id
            /\ calls' = [calls EXCEPT
                  ![call].pc = "await-history",
                  ![call].lookup = IF convData.conversation_id = Null THEN "no-id" ELSE "id",
                  ![call].requested = activeConversationId']
            /\ UNCHANGED messagesArea
    /\ UNCHANGED << activeFriendId, wsConnection, messages, connectionStatus,
                    sockets, received, baseline, delivered >>
    /\ UNCHANGED << composerText, sent >>
    /\ UNCHANGED directory

\* `await GigaAPI.Conversations.start(friendId)` resumes with a body
LookupFulfilled(call, convData) ==
    /\ calls[call].pc = "await-lookup"
    /\ lastOp' = Op("LookupFulfilled", call, wsConnection, NoBody, NoFrame)
    /\ IF convData.isNull
       THEN \* convData.conversation_id throws a TypeError
            /\ Catch(call, "failed", "pending")
            /\ UNCHANGED activeConversationId
       ELSE /\ activeConversationId' = convData.conversation_id
            /\ IF convData.conversation_id = Null
               THEN Catch(call, "no-id", "pending")
               ELSE /\ calls' = [calls EXCEPT ![call].pc = "await-history",
                                              ![call].lookup = "id",
                                              ![call].requested = activeConversationId']
                    /\ UNCHANGED messagesArea
    /\ UNCHANGED << activeFriendId, wsConnection, messages, connectionStatus,
                    sockets, received, baseline, delivered >>
    /\ UNCHANGED << composerText, sent >>
    /\ UNCHANGED directory

\* Variant of LookupRejected: the failed call takes back the selection
LookupRejected_Deselects(call) ==
    /\ calls[call].pc = "await-lookup"
    /\ Catch(call, "failed", "pending")
    /\ lastOp' = Op("LookupRejected", call, wsConnection, NoBody, NoFrame)
    /\ activeFriendId' = Null
    /\ UNCHANGED << activeConversationId, wsConnection, messages,
                    connectionStatus, sockets, received, baseline, delivered >>
    /\ UNCHANGED << composerText, sent >>
    /\ UNCHANGED directory

\* `await GigaAPI.Conversations.start(friendId)` throws
LookupRejected(call) ==
    /\ calls[call].pc = "await-lookup"
    /\ Catch(call, "failed", "pending")
    /\ lastOp' = Op("LookupRejected", call, wsConnection, NoBody, NoFrame)
    /\ UNCHANGED << activeFriendId, activeConversationId, wsConnection, messages,
                    connectionStatus, sockets, received, baseline, delivered >>
    /\ UNCHANGED << composerText, sent >>
    /\ UNCHANGED directory

\* `await GigaAPI.Conversations.messages(...)` resumes with a body
\* (isNull: request() returned null, so historyData.messages throws)
HistoryFulfilled(call, isNull, historyData) ==
    /\ calls[call].pc = "await-history"
    /\ lastOp' = Op("HistoryFulfilled", call, wsConnection,
                    IF isNull THEN NoBody ELSE historyData, NoFrame)
    /\ IF isNull
       THEN /\ Catch(call, "id", "failed")
            /\ UNCHANGED << messages, wsConnection, connectionStatus, sockets,
                            baseline, delivered >>
       ELSE /\ messages' = HistoryMessages(historyData)
            /\ messagesArea' = "rendered"
            /\ ConnectWebSocket(activeConversationId, call)
            /\ baseline' = messages'
            /\ delivered' = << >>
            /\ calls' = [calls EXCEPT ![call].pc = "done", ![call].history = "ok"]
    /\ UNCHANGED << activeFriendId, activeConversationId, received >>
    /\ UNCHANGED << composerText, sent >>
    /\ UNCHANGED directory

\* `await GigaAPI.Conversations.messages(...)` throws
HistoryRejected(call) ==
    /\ calls[call].pc = "await-history"
    /\ Catch(call, "id", "failed")
    /\ lastOp' = Op("HistoryRejected", call, wsConnection, NoBody, NoFrame)
    /\ UNCHANGED << activeFriendId, activeConversationId, wsConnection, messages,
                    connectionStatus, sockets, received, baseline, delivered >>
    /\ UNCHANGED << composerText, sent >>
    /\ UNCHANGED directory

----------------------------------------------------------------------------
(* WebSocket events *)

\* "open" event: onOpen
SocketOpen(s) ==
    /\ sockets[s].readyState = CONNECTING
    /\ sockets' = [sockets EXCEPT ![s].readyState = OPEN]
    /\ connectionStatus' = "connected"
    /\ lastOp' = Op("SocketOpen", 0, s, NoBody, NoFrame)
    /\ UNCHANGED << activeFriendId, activeConversationId, wsConnection, messages,
                    messagesArea, calls, received, baseline, delivered >>
    /\ UNCHANGED << composerText, sent >>
    /\ UNCHANGED directory

\* "message" event (dispatched only while the socket is open): the message
\* listener, then onMessage. The try block of the listener encloses the call
\* of onMessage as well as JSON.parse, so an exception of onMessage (thrown
\* by renderMessages, after the push) runs the catch block, which calls
\* onMessage again with the text of the frame.
SocketMessage(s, frame, now) ==
    LET data == ListenerData(frame)
        first == OnMessage(messages, sockets[s].conversationId, data,
                           LocalIdBase + received, now)
        again == JSONParse(frame).ok /\ Accepted(data) /\ RenderThrows(first)
        second == IF again
                  THEN OnMessage(first, sockets[s].conversationId, Fallback(frame),
                                 LocalIdBase + MaxFrames + received, now)
                  ELSE first
    IN  /\ sockets[s].readyState = OPEN
        /\ received < MaxFrames
        /\ received' = received + 1
        /\ delivered' = Append(delivered, frame)
        /\ lastOp' = [Op("SocketMessage", 0, s, NoBody, frame)
                       EXCEPT !.handed = IF again THEN << data, Fallback(frame) >>
                                         ELSE << data >>]
        /\ messages' = second
        /\ messagesArea' = IF second # messages /\ ~RenderThrows(second)
                           THEN "rendered" ELSE messagesArea
        /\ UNCHANGED << activeFriendId, activeConversationId, wsConnection,
                        connectionStatus, calls, sockets, baseline >>
        /\ UNCHANGED << composerText, sent >>
        /\ UNCHANGED directory

\* Variant of SocketClosed: onClose also drops the held channel reference
SocketClosed_DropsChannel(s) ==
    /\ sockets[s].readyState \in {OPEN, CLOSING}
    /\ ~sockets[s].failed
    /\ sockets' = [sockets EXCEPT ![s].readyState = CLOSED,
                                  ![s].closeEvents = @ + 1]
    /\ connectionStatus' = "disconnected"
    /\ wsConnection' = NoSocket
    /\ lastOp' = Op("SocketClosed", 0, s, NoBody, NoFrame)
    /\ UNCHANGED << activeFriendId, activeConversationId, messages,
                    messagesArea, calls, received, baseline, delivered >>
    /\ UNCHANGED << composerText, sent >>
    /\ UNCHANGED directory

\* "close" event of a connection that ended without failing: onClose
SocketClosed(s) ==
    /\ sockets[s].readyState \in {OPEN, CLOSING}
    /\ ~sockets[s].failed
    /\ sockets' = [sockets EXCEPT ![s].readyState = CLOSED,
                                  ![s].closeEvents = @ + 1]
    /\ connectionStatus' = "disconnected"
    /\ lastOp' = Op("SocketClosed", 0, s, NoBody, NoFrame)
    /\ UNCHANGED << activeFriendId, activeConversationId, wsConnection, messages,
                    messagesArea, calls, received, baseline, delivered >>
    /\ UNCHANGED << composerText, sent >>
    /\ UNCHANGED directory

\* Variant of SocketError: onError opens a new channel for the conversation
SocketError_Reconnects(s) ==
    /\ sockets[s].readyState \in {CONNECTING, OPEN, CLOSING}
    /\ sockets' = Append([sockets EXCEPT ![s].readyState = CLOSED, ![s].failed = TRUE,
                                         ![s].closeEvents = @ + 1],
                         NewSocket(sockets[s].conversationId, sockets[s].by))
    /\ wsConnection' = Len(sockets) + 1
    /\ connectionStatus' = "reconnecting"
    /\ lastOp' = Op("SocketError", 0, s, NoBody, NoFrame)
    /\ UNCHANGED << activeFriendId, activeConversationId, messages,
                    messagesArea, calls, received, baseline, delivered >>
    /\ UNCHANGED << composerText, sent >>
    /\ UNCHANGED directory

\* "error" then "close" events of a connection that failed: onError, onClose
SocketError(s) ==
    /\ sockets[s].readyState \in {CONNECTING, OPEN, CLOSING}
    /\ sockets' = [sockets EXCEPT ![s].readyState = CLOSED, ![s].failed = TRUE,
                                  ![s].closeEvents = @ + 1]
    /\ connectionStatus' = "disconnected"
    /\ lastOp' = Op("SocketError", 0, s, NoBody, NoFrame)
    /\ UNCHANGED << activeFriendId, activeConversationId, wsConnection, messages,
                    messagesArea, calls, received, baseline, delivered >>
    /\ UNCHANGED << composerText, sent >>
    /\ UNCHANGED directory

----------------------------------------------------------------------------
(* Rendering of the message list *)

\* Timestamps per local calendar day
TicksPerDay == 2

\* new Date(iso).toDateString(): the local calendar day of a timestamp
ToDateString(at) == (at - 1) \div TicksPerDay

\* Variant of IsDifferentDay: the timestamps are compared, not their days
IsDifferentDay_Timestamps(at1, at2) ==
    IF at1 = NoTime \/ at2 = NoTime
    THEN FALSE
    ELSE at1 # at2

\* isDifferentDay(iso1, iso2): false when either timestamp is missing
IsDifferentDay(at1, at2) ==
    IF at1 = NoTime \/ at2 = NoTime
    THEN FALSE
    ELSE ToDateString(at1) # ToDateString(at2)

\* The test of renderMessages for a date separator before msgs[index]
DateSeparatorBefore(msgs, index) ==
    index = 1 \/ IsDifferentDay(msgs[index - 1].created_at, msgs[index].created_at)

\* The forEach of renderMessages from msgs[index] on: the elements appended
\* to the markup, each with the index of the message it was made for
RECURSIVE RenderFrom(_, _)
RenderFrom(msgs, index) ==
    IF index > Len(msgs)
    THEN << >>
    ELSE (IF DateSeparatorBefore(msgs, index)
          THEN << [kind |-> "date-separator", index |-> index] >>
          ELSE << >>)
         \o << [kind |-> "message", index |-> index] >>
         \o RenderFrom(msgs, index + 1)

\* renderMessages(): the elements of #messages-area
RenderMessages(msgs) ==
    IF msgs = << >>
    THEN << [kind |-> "message-system", index |-> 0] >>
    ELSE RenderFrom(msgs, 1)

----------------------------------------------------------------------------
(* Rendering of one message: getAvatarColor, escapeHtml and the element    *)
(* renderMessages builds                                                    *)

\* chat.js:20-27; AVATAR_COLORS[k] of the code is AVATAR_COLORS[k + 1] here.
AVATAR_COLORS ==
    << "#2A8A8A", "#6B2D5B", "#1E6B8A", "#2D3561", "#4FA89B", "#8A3D76" >>

Undefined == "undefined"

\* Array indexing: an index outside 0 .. length - 1 yields undefined.
At(array, k) ==
    IF k \in 0 .. Len(array) - 1 THEN array[k + 1] ELSE Undefined

UuidA == "123e4567-e89b-12d3-a456-426614174000"
UuidB == "9b2f6c1e-8d3a-4f7b-a1c5-0e6d2b7f4a39"

\* String(id).charCodeAt(i) for the ids that occur.
CharCodes(id) ==
    CASE id = "f1" -> << 102, 49 >>
      [] id = "f2" -> << 102, 50 >>
      [] id = "f9" -> << 102, 57 >>
      [] id = "me" -> << 109, 101 >>
      [] id = UuidA ->
            << 49, 50, 51, 101, 52, 53, 54, 55, 45, 101, 56, 57, 98, 45, 49, 50,
            100, 51, 45, 97, 52, 53, 54, 45, 52, 50, 54, 54, 49, 52, 49, 55, 52,
            48, 48, 48 >>
      [] id = UuidB ->
            << 57, 98, 50, 102, 54, 99, 49, 101, 45, 56, 100, 51, 97, 45, 52, 102,
            55, 98, 45, 97, 49, 99, 53, 45, 48, 101, 54, 100, 50, 98, 55, 102, 52,
            97, 51, 57 >>
      [] OTHER -> << >>

\* A JavaScript number that holds an integer, as hi * 2^16 + lo with
\* 0 <= lo < 2^16: the hash leaves the 32-bit range, since only the shift
\* converts its operand to a 32-bit integer.
Limb == 65536

Number(hi, lo) == [hi |-> hi + (lo \div Limb), lo |-> lo % Limb]

Zero == Number(0, 0)

\* ToInt32: the value modulo 2^32, read as a signed 32-bit integer.
ToInt32(x) ==
    LET hi == x.hi % Limb
    IN  Number(IF hi >= Limb \div 2 THEN hi - Limb ELSE hi, x.lo)

\* x << 5
ShiftLeft5(x) == ToInt32(Number(32 * ToInt32(x).hi, 32 * ToInt32(x).lo))

Minus(x, y) == Number(x.hi - y.hi, x.lo - y.lo)

Plus(x, y) == Number(x.hi + y.hi, x.lo + y.lo)

\* Math.abs
MathAbs(x) == IF x.hi < 0 THEN Number(0 - x.hi, 0 - x.lo) ELSE x

\* x % n of JavaScript for a small positive n: the remainder has the sign
\* of x.
Remainder(x, n) ==
    LET a == MathAbs(x)
        r == ((a.hi % n) * (Limb % n) + a.lo) % n
    IN  IF x.hi < 0 THEN 0 - r ELSE r

\* chat.js:862, one round of the loop of getAvatarColor:
\* hash = str.charCodeAt(i) + ((hash << 5) - hash)
HashStep(hash, code) == Plus(Number(0, code), Minus(ShiftLeft5(hash), hash))

\* chat.js:860-863, hash after the loop has run over codes. The value of
\* the rounds before is bound once, as the loop variable holds it.
RECURSIVE Hash(_)
Hash(codes) ==
    IF codes = << >> THEN Zero
    ELSE CHOOSE next \in { HashStep(hash, codes[Len(codes)]) :
                              hash \in { Hash(SubSeq(codes, 1, Len(codes) - 1)) } } :
            TRUE

\* !id
Falsy(id) == id = Null \/ id = ""

\* chat.js:857-866
GetAvatarColor_NoAbs(id) ==
    IF Falsy(id) THEN At(AVATAR_COLORS, 0)
    ELSE At(AVATAR_COLORS,
            Remainder(Hash(CharCodes(id)), Len(AVATAR_COLORS)))

GetAvatarColor(id) ==
    IF Falsy(id) THEN At(AVATAR_COLORS, 0)
    ELSE At(AVATAR_COLORS,
            Remainder(MathAbs(Hash(CharCodes(id))),
                      Len(AVATAR_COLORS)))

\* chat.js:868-873: the serialisation of a text node writes &, < and > as
\* character references and every other character as it is.
RECURSIVE EscapeHtml(_)
EscapeHtml_AmpersandKept(str) ==
    IF str = EmptyString THEN EmptyString
    ELSE (CASE Head(str) = "<" -> << "&", "l", "t", ";" >>
            [] Head(str) = ">" -> << "&", "g", "t", ";" >>
            [] OTHER -> << Head(str) >>) \o EscapeHtml(Tail(str))

EscapeHtml(str) ==
    IF str = EmptyString THEN EmptyString
    ELSE (CASE Head(str) = "&" -> << "&", "a", "m", "p", ";" >>
            [] Head(str) = "<" -> << "&", "l", "t", ";" >>
            [] Head(str) = ">" -> << "&", "g", "t", ";" >>
            [] OTHER -> << Head(str) >>) \o EscapeHtml(Tail(str))

\* String.prototype.toUpperCase on the characters that occur.
ToUpperCase(str) ==
    [i \in 1 .. Len(str) |->
        CASE str[i] = "a" -> "A"
          [] str[i] = "b" -> "B"
          [] str[i] = "i" -> "I"
          [] str[i] = "l" -> "L"
          [] OTHER -> str[i]]

\* String.prototype.charAt(0)
CharAt0(str) == IF str = EmptyString THEN EmptyString ELSE << Head(str) >>

\* Variant of MessageElement: a message without a sender is taken as the
\* user's own
MessageElement_NullIsSelf(msg, user, friendList) ==
    LET isSelf == msg.sender_id = user.user_id \/ msg.sender_id = Null
        senderName == IF isSelf THEN << "Y", "o", "u" >>
                      ELSE GetFriendName(friendList, msg.sender_id)
    IN  [self |-> isSelf,
         senderName |-> senderName,
         avatarColor |-> IF isSelf THEN At(AVATAR_COLORS, 3)
                         ELSE GetAvatarColor(msg.sender_id),
         avatarText |-> ToUpperCase(CharAt0(senderName)),
         sender |-> EscapeHtml(senderName),
         bubble |-> EscapeHtml(msg.content)]

\* chat.js:358-387, the .message element of msg: the values the template
\* interpolates.
MessageElement(msg, user, friendList) ==
    LET isSelf == msg.sender_id = user.user_id
        senderName == IF isSelf THEN << "Y", "o", "u" >>
                      ELSE GetFriendName(friendList, msg.sender_id)
    IN  [self |-> isSelf,
         senderName |-> senderName,
         avatarColor |-> IF isSelf THEN At(AVATAR_COLORS, 3)
                         ELSE GetAvatarColor(msg.sender_id),
         avatarText |-> ToUpperCase(CharAt0(senderName)),
         sender |-> EscapeHtml(senderName),
         bubble |-> EscapeHtml(msg.content)]

MessageElements(msgs, user, friendList) ==
    [i \in 1 .. Len(msgs) |-> MessageElement(msgs[i], user, friendList)]

----------------------------------------------------------------------------
(* Composer *)

\* The user edits the textarea ("input" event: only the counter and the
\* send button are refreshed)
ComposerInput(text) ==
    /\ composerText' = text
    /\ lastOp' = Op("ComposerInput", 0, wsConnection, NoBody, NoFrame)
    /\ UNCHANGED << activeFriendId, activeConversationId, wsConnection, messages,
                    messagesArea, connectionStatus, calls, sockets, received,
                    baseline, delivered, sent >>
    /\ UNCHANGED directory

\* Variant of Rejected: the limit itself is refused
Rejected_AtLimit(content) ==
    content = EmptyText \/ Length(content) >= MAX_MESSAGE_LENGTH

\* `if (!content || content.length > MAX_MESSAGE_LENGTH) return;`
Rejected(content) ==
    content = EmptyText \/ Length(content) > MAX_MESSAGE_LENGTH

\* Variant of SendMessage: the sent message is appended to `messages` at once
SendMessage_Optimistic ==
    /\ Len(sent) < MaxSent
    /\ lastOp' = Op("SendMessage", 0, wsConnection, NoBody, NoFrame)
    /\ IF wsConnection = NoSocket \/ Rejected(Trim(composerText))
       THEN UNCHANGED << composerText, sent, messages >>
       ELSE /\ Send(wsConnection, Trim(composerText))
            /\ composerText' = EmptyText
            /\ messages' = Append(messages,
                                  Msg(LocalIdBase + received, activeConversationId,
                                      "me", "ok", NoTime))
    /\ UNCHANGED << activeFriendId, activeConversationId, wsConnection,
                    messagesArea, connectionStatus, calls, sockets, received,
                    baseline, delivered >>
    /\ UNCHANGED directory

\* sendMessage(): the send button or the Enter key
SendMessage ==
    /\ Len(sent) < MaxSent
    /\ lastOp' = Op("SendMessage", 0, wsConnection, NoBody, NoFrame)
    /\ IF wsConnection = NoSocket \/ Rejected(Trim(composerText))
       THEN UNCHANGED << composerText, sent >>
       ELSE /\ Send(wsConnection, Trim(composerText))
            /\ composerText' = EmptyText
    /\ UNCHANGED << activeFriendId, activeConversationId, wsConnection, messages,
                    messagesArea, connectionStatus, calls, sockets, received,
                    baseline, delivered >>
    /\ UNCHANGED directory

----------------------------------------------------------------------------
(* The transport channel driven directly: connect, send and close called  *)
(* in any order                                                            *)

\* The contents handed to send
Contents == { Text(0, 1), Text(0, MAX_MESSAGE_LENGTH) }

\* GigaAPI.ChatSocket.connect(conversationId, callbacks)
ChannelConnect(conversationId) ==
    /\ Len(sockets) < MaxChannels
    /\ sockets' = Append(sockets, NewSocket(conversationId, 0))
    /\ lastOp' = Op("ChannelConnect", 0, Len(sockets) + 1, NoBody, NoFrame)
    /\ UNCHANGED << activeFriendId, activeConversationId, wsConnection, messages,
                    messagesArea, connectionStatus, calls, received, baseline,
                    delivered, composerText, sent >>
    /\ UNCHANGED directory

\* send(content) on the object connect returned
ChannelSend(s, content) ==
    /\ Len(sent) < MaxSent
    /\ Send(s, content)
    /\ lastOp' = [Op("ChannelSend", 0, s, NoBody, NoFrame)
                   EXCEPT !.outcome = SendOutcome(sockets[s])]
    /\ UNCHANGED << activeFriendId, activeConversationId, wsConnection, messages,
                    messagesArea, connectionStatus, calls, sockets, received,
                    baseline, delivered, composerText >>
    /\ UNCHANGED directory

\* close() on the object connect returned
ChannelClose(s) ==
    /\ sockets' = [sockets EXCEPT ![s] = Close(@)]
    /\ lastOp' = [Op("ChannelClose", 0, s, NoBody, NoFrame)
                   EXCEPT !.outcome = IF sockets[s].closeCalled
                                      THEN "called again" ELSE "called first"]
    /\ UNCHANGED << activeFriendId, activeConversationId, wsConnection, messages,
                    messagesArea, connectionStatus, calls, received, baseline,
                    delivered, composerText, sent >>
    /\ UNCHANGED directory

----------------------------------------------------------------------------
(* Page start-up and the friend directory: init, loadFriends,              *)
(* renderFriendList                                                         *)

\* The variables of the conversation session and the composer.
session == << activeFriendId, activeConversationId, wsConnection, messages,
              messagesArea, connectionStatus, calls, sockets, received,
              baseline, delivered, composerText, sent >>

\* chat.js:62-74, the page when init() reaches its first await.
InitPage ==
    /\ activeFriendId = Null
    /\ activeConversationId = Null
    /\ wsConnection = NoSocket
    /\ messages = << >>
    /\ messagesArea = "empty-state"
    /\ connectionStatus = "hidden"
    /\ calls = << >>
    /\ sockets = << >>
    /\ received = 0
    /\ baseline = << >>
    /\ delivered = << >>
    /\ composerText = EmptyText
    /\ sent = << >>
    /\ page = "await-me"
    /\ currentUser \in StoredUsers
    /\ friends = << >>
    /\ friendListEl = << >>
    /\ lastOp = Op("init", 0, 0, NoBody, NoFrame)

\* chat.js:77-87, GET /me rejected: redirect to the login page and return.
MeRejected_Continues ==
    /\ page = "await-me"
    /\ page' = "await-profile"
    /\ lastOp' = Op("MeRejected", 0, wsConnection, NoBody, NoFrame)
    /\ UNCHANGED << currentUser, friends, friendListEl >>
    /\ UNCHANGED session

MeRejected ==
    /\ page = "await-me"
    /\ page' = "redirected"
    /\ lastOp' = Op("MeRejected", 0, wsConnection, NoBody, NoFrame)
    /\ UNCHANGED << currentUser, friends, friendListEl >>
    /\ UNCHANGED session

\* chat.js:77-87, GET /me fulfilled. Reading user_id of a null body is a
\* TypeError inside the try, which ends like a rejection.
MeFulfilled(meData) ==
    /\ page = "await-me"
    /\ IF meData.isNull
       THEN /\ page' = "redirected"
            /\ UNCHANGED currentUser
       ELSE /\ page' = "await-profile"
            /\ currentUser' =
                  IF currentUser = NoUser \/ currentUser.user_id # meData.user_id
                  THEN User(meData.user_id, FallbackName)
                  ELSE currentUser
    /\ lastOp' = [Op("MeFulfilled", 0, wsConnection, NoBody, NoFrame)
                    EXCEPT !.args = meData]
    /\ UNCHANGED << friends, friendListEl >>
    /\ UNCHANGED session

\* chat.js:89-103, GET /profile/me settled; init goes on to loadFriends()
\* either way.
ProfileFulfilled(profile) ==
    /\ page = "await-profile"
    /\ page' = "await-friends"
    /\ currentUser' = IF profile.isNull THEN currentUser
                      ELSE [currentUser EXCEPT !.username = profile.username]
    /\ lastOp' = [Op("ProfileFulfilled", 0, wsConnection, NoBody, NoFrame)
                    EXCEPT !.args = profile]
    /\ UNCHANGED << friends, friendListEl >>
    /\ UNCHANGED session

ProfileRejected ==
    /\ page = "await-profile"
    /\ page' = "await-friends"
    /\ lastOp' = Op("ProfileRejected", 0, wsConnection, NoBody, NoFrame)
    /\ UNCHANGED << currentUser, friends, friendListEl >>
    /\ UNCHANGED session

\* chat.js:127-128, the list a fulfilled GET /friends leaves in the cache.
\* Reading friends of a null body is a TypeError, caught at line 129.
LoadedFriends(body) ==
    IF body.isNull \/ ~body.hasFriends THEN << >> ELSE body.friends

\* chat.js:125-133, loadFriends from its await on, and its caller after it:
\* init binds the events (chat.js:103-106), handleAddFriend goes on to its
\* finally (chat.js:662-667).
LoadFriends(name, body, list) ==
    /\ page \in {"await-friends", "reloading"}
    /\ page' = "ready"
    /\ friends' = list
    /\ friendListEl' = FriendItems(Filtered(list, EmptyString))
    /\ lastOp' = [Op(name, 0, wsConnection, NoBody, NoFrame) EXCEPT !.args = body]
    /\ UNCHANGED currentUser
    /\ UNCHANGED session

FriendsFulfilled(body) ==
    LoadFriends("FriendsFulfilled", body, LoadedFriends(body))

\* chat.js:129-131
FriendsRejected_KeepsCache ==
    LoadFriends("FriendsRejected", FriendsBody(TRUE, FALSE, << >>), friends)

FriendsRejected ==
    LoadFriends("FriendsRejected", FriendsBody(TRUE, FALSE, << >>), << >>)

\* chat.js:639-662, handleAddFriend after POST /friends is fulfilled: it
\* calls loadFriends again.
FriendAdded ==
    /\ page = "ready"
    /\ page' = "reloading"
    /\ lastOp' = Op("FriendAdded", 0, wsConnection, NoBody, NoFrame)
    /\ UNCHANGED << currentUser, friends, friendListEl >>
    /\ UNCHANGED session

\* chat.js:484-488, the input listener of the search box, bound by
\* bindEvents: renderFriendList(searchInput.value).
Search(query) ==
    /\ page \in {"ready", "reloading"}
    /\ friendListEl' = FriendItems(Filtered(friends, query))
    /\ lastOp' = [Op("Search", 0, wsConnection, NoBody, NoFrame)
                    EXCEPT !.args = query, !.result = Filtered(friends, query)]
    /\ UNCHANGED << page, currentUser, friends >>
    /\ UNCHANGED session

\* chat.js:185-196, the click listener of a .friend-item element.
FriendItemClicked(i) ==
    /\ i \in 1 .. Len(friendListEl)
    /\ OpenConversation(friendListEl[i].friendId)

----------------------------------------------------------------------------
(* The renderer driven directly: renderMessages over a message list, and   *)
(* getFriendName                                                            *)

Cy == Friend(UuidA, EmptyString, EmptyString)

RenderCaches == { << >>, << Al, Bo >>, << Bo, Cy, Al >> }

RenderSenders == { "me", "f1", "f2", "f9", Null, "", UuidA, UuidB }

RenderContents ==
    { EmptyString, << "a" >>, << "<" >>, << "\"" >>,
      << "<", "b", ">" >>, << "a", "&", "b" >>,
      << "&", "l", "t", ";" >>, << "&", "a", "m", "p", ";" >>,
      << "<", "a", " ", "b", "=", "\"", "&", "\"", ">" >> }

\* The messages rendered: every sender with one content, and one sender
\* with every content.
RenderedMessages ==
    { Msg(1, "c1", sender, << "a" >>, 1) : sender \in RenderSenders }
    \cup { Msg(1, "c1", "f1", content, 1) : content \in RenderContents }

InitRender ==
    /\ activeFriendId = Null
    /\ activeConversationId = Null
    /\ wsConnection = NoSocket
    /\ messages = << >>
    /\ messagesArea = "empty-state"
    /\ connectionStatus = "hidden"
    /\ calls = << >>
    /\ sockets = << >>
    /\ received = 0
    /\ baseline = << >>
    /\ delivered = << >>
    /\ composerText = EmptyText
    /\ sent = << >>
    /\ page = "ready"
    /\ currentUser = User("me", << "m", "e" >>)
    /\ friends \in RenderCaches
    /\ friendListEl = FriendItems(friends)
    /\ lastOp = Op("init", 0, 0, NoBody, NoFrame)

\* chat.js:296-305 and 344-391: a message is pushed and renderMessages
\* runs over the list.
Render(msg) ==
    /\ Len(messages) < MaxRendered
    /\ messages' = Append(messages, msg)
    /\ messagesArea' = "rendered"
    /\ lastOp' = [Op("renderMessages", 0, wsConnection, NoBody, NoFrame)
                    EXCEPT !.result = MessageElements(messages', currentUser, friends)]
    /\ UNCHANGED << activeFriendId, activeConversationId, wsConnection,
                    connectionStatus, calls, sockets, received, baseline,
                    delivered, composerText, sent >>
    /\ UNCHANGED directory

\* chat.js:401-405, getFriendName called with senderId.
ResolveName(senderId) ==
    /\ lastOp' = [Op("getFriendName", 0, wsConnection, NoBody, NoFrame)
                    EXCEPT !.args = senderId,
                           !.result = GetFriendName(friends, senderId)]
    /\ UNCHANGED session
    /\ UNCHANGED directory

----------------------------------------------------------------------------

CallIds == 1 .. Len(calls)
SocketIds == 1 .. Len(sockets)

Next ==
    \/ \E f \in Friends : OpenConversation(f)
    \/ \E c \in CallIds : \E b \in LookupBodies(calls[c].request.body.friend_id) :
          LookupFulfilled(c, b)
    \/ \E c \in CallIds : LookupRejected(c)
    \/ \E c \in CallIds : \E n \in BOOLEAN :
          \E b \in HistoryBodies(calls[c].requested) : HistoryFulfilled(c, n, b)
    \/ \E c \in CallIds : HistoryRejected(c)
    \/ \E s \in SocketIds : SocketOpen(s)
    \/ \E s \in SocketIds : \E fr \in Frames : \E t \in ArrivalTimes : SocketMessage(s, fr, t)
    \/ \E s \in SocketIds : SocketClosed(s)
    \/ \E s \in SocketIds : SocketError(s)

Spec == Init /\ [][Next]_vars

\* The session receiving, besides the frames of Next, a frame whose content
\* cannot be rendered
NextListener ==
    \/ Next
    \/ \E s \in SocketIds : \E t \in ArrivalTimes : SocketMessage(s, UnprintableFrame, t)

SpecListener == Init /\ [][NextListener]_vars

\* The session with its composer; the server echoes what was sent
NextComposer ==
    \/ \E f \in Friends : Len(calls) < ComposerCalls /\ OpenConversation(f)
    \/ \E c \in CallIds : \E b \in LookupBodies(calls[c].request.body.friend_id) :
          LookupFulfilled(c, b)
    \/ \E c \in CallIds : LookupRejected(c)
    \/ \E c \in CallIds : \E n \in BOOLEAN :
          \E b \in HistoryBodies(calls[c].requested) : HistoryFulfilled(c, n, b)
    \/ \E c \in CallIds : HistoryRejected(c)
    \/ \E s \in SocketIds : SocketOpen(s)
    \/ \E s \in SocketIds : \E t \in ArrivalTimes :
          received < ComposerFrames /\ SocketMessage(s, EchoFrame, t)
    \/ \E s \in SocketIds : SocketClosed(s)
    \/ \E s \in SocketIds : SocketError(s)
    \/ \E text \in Drafts : ComposerInput(text)
    \/ SendMessage

SpecComposer == Init /\ [][NextComposer]_vars

\* The continuation of call c after the await it stands at: the response of
\* its lookup or history request arrives, or the request fails.
Settle(c) ==
    /\ c \in CallIds
    /\ \/ \E b \in LookupBodies(calls[c].request.body.friend_id) : LookupFulfilled(c, b)
       \/ LookupRejected(c)
       \/ \E n \in BOOLEAN : \E b \in HistoryBodies(calls[c].requested) :
             HistoryFulfilled(c, n, b)
       \/ HistoryRejected(c)

\* The session when every request is answered: fetch settles each request,
\* and the continuation of an await runs once its promise has settled.
SpecLive == Init /\ [][Next]_vars /\ \A c \in 1 .. MaxCalls : WF_vars(Settle(c))

\* The transport channel under any sequence of calls and socket events
NextChannel ==
    \/ ChannelConnect("c1")
    \/ \E s \in SocketIds : \E text \in Contents : ChannelSend(s, text)
    \/ \E s \in SocketIds : ChannelClose(s)
    \/ \E s \in SocketIds : SocketOpen(s)
    \/ \E s \in SocketIds : SocketClosed(s)
    \/ \E s \in SocketIds : SocketError(s)

SpecChannel == Init /\ [][NextChannel]_vars

\* The page from the start of init(): the directory and, through the friend
\* items it renders, the session up to its channel; no frame arrives
NextPage ==
    \/ MeRejected
    \/ \E meData \in MeBodies : MeFulfilled(meData)
    \/ \E profile \in ProfileBodies : ProfileFulfilled(profile)
    \/ ProfileRejected
    \/ \E body \in FriendsBodies : FriendsFulfilled(body)
    \/ FriendsRejected
    \/ FriendAdded
    \/ \E query \in Queries : Search(query)
    \/ \E i \in 1 .. Len(friendListEl) :
          Len(calls) < PageCalls /\ FriendItemClicked(i)
    \/ \E c \in CallIds : \E b \in LookupBodies(calls[c].request.body.friend_id) :
          LookupFulfilled(c, b)
    \/ \E c \in CallIds : LookupRejected(c)
    \/ \E c \in CallIds : \E n \in BOOLEAN :
          \E b \in HistoryBodies(calls[c].requested) : HistoryFulfilled(c, n, b)
    \/ \E c \in CallIds : HistoryRejected(c)
    \/ \E s \in SocketIds : SocketOpen(s)
    \/ \E s \in SocketIds : SocketClosed(s)
    \/ \E s \in SocketIds : SocketError(s)

SpecPage == InitPage /\ [][NextPage]_vars

\* The renderer over every message list and sender id
NextRender ==
    \/ \E msg \in RenderedMessages : Render(msg)
    \/ \E senderId \in RenderSenders : ResolveName(senderId)

SpecRender == InitRender /\ [][NextRender]_vars

TypeOK ==
    /\ activeFriendId \in Friends \cup {Null}
    /\ wsConnection \in {NoSocket} \cup SocketIds
    /\ messagesArea \in {"empty-state", "spinner", "rendered", "error"}
    /\ connectionStatus \in {"hidden", "reconnecting", "connected", "disconnected"}
    /\ Len(calls) <= MaxCalls
    /\ page \in {"await-me", "await-profile", "await-friends", "ready",
                 "reloading", "redirected"}

----------------------------------------------------------------------------
(* Helpers of the properties *)

\* The latest invocation of openConversation
Latest == Len(calls)

\* No openConversation call is awaiting a response
Settled == \A c \in CallIds : calls[c].pc \in {"done", "caught"}

\* A message that came from a history response (server-assigned id)
Fetched(m) == m.id < LocalIdBase

\* The content of an inbound event, as the server sent it
EventContent(frame) ==
    IF frame.kind = "object" THEN frame.content
    ELSE IF frame.kind = "text" THEN frame.text
    ELSE Null

HasContent(frame) == EventContent(frame) # Null /\ EventContent(frame) # ""

----------------------------------------------------------------------------
(* C1: in every reachable state every channel on which close() has not     *)
(* been called is the channel held in wsConnection, so there is at most    *)
(* one such channel.                                                       *)
C1_AtMostOneActiveChannel ==
    /\ \A s \in SocketIds : ~sockets[s].closeCalled => s = wsConnection
    /\ wsConnection # NoSocket => ~sockets[wsConnection].closeCalled

\* connectWebSocket found a channel held by an overlapping call and closed it
C1_Witness ==
    /\ lastOp.op = "HistoryFulfilled"
    /\ lastOp.sock # NoSocket
    /\ wsConnection # NoSocket
    /\ wsConnection # lastOp.sock
    /\ sockets[lastOp.sock].closeCalled

(* C2: when openConversation for B is invoked while a call for A is still  *)
(* awaiting a response, no message fetched for a conversation other than   *)
(* B's is in `messages` afterwards, and once every response has resolved   *)
(* (B's call having succeeded) conversation_id is B's conversation. B is   *)
(* the friend of the latest invocation, activeFriendId.                    *)
C2_SwitchWins ==
    /\ \A i \in 1 .. Len(messages) :
          Fetched(messages[i]) => messages[i].conversation_id = ConvOf(activeFriendId)
    /\ (Latest > 0 /\ Settled /\ calls[Latest].pc = "done")
          => activeConversationId = ConvOf(activeFriendId)

(* C3: a history response that resolves for a call that has been           *)
(* superseded by a later openConversation call, or for a conversation      *)
(* that is no longer the current conversation_id, is discarded: it         *)
(* neither replaces `messages` nor opens a channel.                        *)
C3_StaleHistoryDiscarded ==
    [][ \A c \in CallIds : \A n \in BOOLEAN : \A b \in HistoryBodies(calls[c].requested) :
          (HistoryFulfilled(c, n, b)
             /\ (c # Latest \/ calls[c].requested # activeConversationId))
          => UNCHANGED << messages, sockets, wsConnection >> ]_vars

(* C4: once a conversation switch has called close() on a channel, no     *)
(* event that channel delivers afterwards (open, message, close, error)    *)
(* changes `messages` or the connection status.                            *)
C4_ClosedChannelIsSilent ==
    [][ \A s \in SocketIds :
          (sockets[s].closeCalled
             /\ (\/ SocketOpen(s)
                 \/ SocketClosed(s)
                 \/ SocketError(s)
                 \/ \E fr \in Frames : \E t \in ArrivalTimes : SocketMessage(s, fr, t)))
          => UNCHANGED << messages, connectionStatus >> ]_vars

(* C5: when a history response is applied and the channel is created, the  *)
(* channel is created for the conversation that history was fetched for,   *)
(* and `messages` holds no live message that the history would overwrite;  *)
(* for every interleaving of overlapping openConversation calls.           *)
C5_HistoryBeforeChannel ==
    [][ \A c \in CallIds : \A b \in HistoryBodies(calls[c].requested) :
          HistoryFulfilled(c, FALSE, b)
          => /\ activeConversationId = calls[c].requested
             /\ \A i \in 1 .. Len(messages) : Fetched(messages[i]) ]_vars

(* C6: a call whose lookup was rejected, came back null or without a       *)
(* conversation_id, or whose history request failed, has created no        *)
(* channel: no socket was created by it and the session holds none of it.  *)
C6_FailedCallOpensNoChannel ==
    \A c \in CallIds :
        (calls[c].lookup \in {"no-id", "failed"} \/ calls[c].history = "failed")
        => /\ \A s \in SocketIds : sockets[s].by # c
           /\ calls[c].pc = "caught"

\* A call got a response without conversation_id while a channel exists
C6_Witness ==
    \E c \in CallIds :
        /\ calls[c].lookup = "no-id"
        /\ calls[c].pc = "caught"
        /\ wsConnection # NoSocket

(* C7: whenever the error presentation is shown, `messages` is empty or    *)
(* exactly the last successfully fetched history, and it is not the case   *)
(* that `messages` is populated while the session holds no channel.        *)
C7_ErrorStateIsClean ==
    messagesArea = "error"
    => /\ messages = << >> \/ messages = baseline
       /\ ~(messages # << >> /\ wsConnection = NoSocket)

(* C8: the number of messages appended to `messages` since the history     *)
(* was applied equals the number of delivered events with non-empty        *)
(* content; events with empty or missing content append nothing.           *)
C8_AppendsEqualNonEmptyEvents ==
    Len(messages) =
        Len(baseline) + Cardinality({i \in 1 .. Len(delivered) : HasContent(delivered[i])})

\* A non-empty and an empty event were delivered over a fetched history
C8_Witness ==
    /\ Len(baseline) > 0
    /\ Len(delivered) = 2
    /\ HasContent(delivered[1])
    /\ ~HasContent(delivered[2])
    /\ lastOp.op = "SocketMessage"

\* The delivered events that carry content, in delivery order
Live == SelectSeq(delivered, HasContent)

(* C9: `messages` is the fetched history followed by the accepted live     *)
(* messages in the order the channel delivered them.                       *)
C9_HistoryThenLiveInOrder ==
    /\ \A i \in 1 .. Len(baseline) : i <= Len(messages) /\ messages[i] = baseline[i]
    /\ \A j \in 1 .. Len(Live) :
          /\ Len(baseline) + j <= Len(messages)
          /\ messages[Len(baseline) + j].content = EventContent(Live[j])
          /\ ~Fetched(messages[Len(baseline) + j])

\* Two different live messages were appended after a fetched history
C9_Witness ==
    /\ Len(baseline) > 0
    /\ Len(Live) = 2
    /\ EventContent(Live[1]) # EventContent(Live[2])
    /\ lastOp.op = "SocketMessage"

(* C10: right after a history response was applied, `messages` is the      *)
(* fetched sequence itself (same elements, same order, duplicates kept),   *)
(* and the empty list when the body has no messages field.                 *)
C10_HistoryVerbatim ==
    (lastOp.op = "HistoryFulfilled" /\ calls[lastOp.call].history = "ok")
    => messages = (IF lastOp.body.hasMessages THEN lastOp.body.messages ELSE << >>)

\* A fetched sequence that is neither sorted nor free of duplicates was applied
C10_Witness ==
    /\ lastOp.op = "HistoryFulfilled"
    /\ calls[lastOp.call].history = "ok"
    /\ Len(messages) = 3
    /\ messages[2] = messages[3]
    /\ messages[1].created_at > messages[2].created_at

(* C11: a close or error event of a channel sets the connection status to  *)
(* disconnected and leaves `messages`, activeConversationId,               *)
(* activeFriendId and the channel reference wsConnection as they were.     *)
C11_CloseOnlyChangesStatus ==
    [][ \A s \in SocketIds :
          (SocketClosed(s) \/ SocketError(s))
          => /\ connectionStatus' = "disconnected"
             /\ UNCHANGED << messages, activeConversationId, activeFriendId,
                             wsConnection >> ]_vars

\* The held channel closed under a session that shows messages
C11_Witness ==
    /\ lastOp.op \in {"SocketClosed", "SocketError"}
    /\ lastOp.sock = wsConnection
    /\ messages # << >>
    /\ activeConversationId # Null
    /\ connectionStatus = "disconnected"

(* C12, as stated: after a close or error event, until openConversation   *)
(* is invoked again, no channel is created and the connection status does  *)
(* not become connected.                                                   *)
C12_NoChannelAfterCloseEvent ==
    [][ lastOp.closedSinceInvoke
        => /\ Len(sockets') = Len(sockets)
           /\ connectionStatus' # "connected" ]_vars

(* C12, amended: there is no automatic reconnect. A channel is created     *)
(* only by the continuation of an openConversation call, never by a close  *)
(* or error event; and once the channel the session holds has closed and   *)
(* no openConversation call is awaiting a response, no channel is created  *)
(* and the status stays disconnected until openConversation is invoked.    *)
C12_NoAutomaticReconnect ==
    [][ /\ Len(sockets') # Len(sockets)
           => \E c \in CallIds : \E b \in HistoryBodies(calls[c].requested) :
                 HistoryFulfilled(c, FALSE, b)
        /\ (/\ Settled
            /\ wsConnection # NoSocket
            /\ sockets[wsConnection].readyState = CLOSED
            /\ ~ \E f \in Friends : OpenConversation(f))
           => /\ connectionStatus = "disconnected"
              /\ connectionStatus' = "disconnected"
              /\ Len(sockets') = Len(sockets) ]_vars

\* The held channel has closed, after an earlier channel, with no call pending
C12_Witness ==
    /\ Settled
    /\ wsConnection # NoSocket
    /\ sockets[wsConnection].readyState = CLOSED
    /\ lastOp.closedSinceInvoke
    /\ Len(sockets) > 1
    /\ connectionStatus = "disconnected"

----------------------------------------------------------------------------
(* Helpers of the composer properties *)

\* The session holds a channel whose connection is open
HeldOpen == wsConnection # NoSocket /\ sockets[wsConnection].readyState = OPEN

\* The state of the session
SessionState ==
    << activeFriendId, activeConversationId, wsConnection, messages, messagesArea,
       connectionStatus, calls, sockets, received >>

(* C13: a submit changes nothing (no frame is sent, the draft and the      *)
(* session keep their values) whenever the trimmed text is empty, the      *)
(* trimmed text is longer than 500 characters, or the session holds no     *)
(* open channel, a channel still connecting or already closed included.    *)
C13_SubmitWithoutOpenChannelIsNoOp ==
    [][ (/\ SendMessage
         /\ \/ Trim(composerText) = EmptyText
            \/ Length(Trim(composerText)) > MAX_MESSAGE_LENGTH
            \/ ~HeldOpen)
        => UNCHANGED << sent, composerText, SessionState >> ]_vars

(* C14, as stated: with an open channel, a submit of a string of 501       *)
(* characters sends nothing and changes no state, and a submit of a string *)
(* of exactly 500 characters sends exactly one frame {content} carrying    *)
(* that string.                                                            *)
C14_BoundaryOfTheText ==
    [][ (SendMessage /\ HeldOpen)
        => /\ Length(composerText) = MAX_MESSAGE_LENGTH + 1
              => UNCHANGED << sent, composerText, SessionState >>
           /\ Length(composerText) = MAX_MESSAGE_LENGTH
              => sent' = Append(sent, [sock |-> wsConnection,
                                       frame |-> [content |-> composerText]]) ]_vars

(* C14, amended: with an open channel, a submit of a string whose trimmed  *)
(* length is 501 sends nothing and changes no state, and a submit of a     *)
(* string whose trimmed length is exactly 500 sends exactly one frame      *)
(* {content} carrying the trimmed string.                                  *)
C14_BoundaryOfTheTrimmedText ==
    [][ (SendMessage /\ HeldOpen)
        => /\ Length(Trim(composerText)) = MAX_MESSAGE_LENGTH + 1
              => UNCHANGED << sent, composerText, SessionState >>
           /\ Length(Trim(composerText)) = MAX_MESSAGE_LENGTH
              => sent' = Append(sent, [sock |-> wsConnection,
                                       frame |-> [content |-> Trim(composerText)]]) ]_vars

\* A text of 500 characters was submitted on the open channel
C14_Witness ==
    /\ lastOp.op = "SendMessage"
    /\ HeldOpen
    /\ composerText = EmptyText
    /\ Len(sent) = 1
    /\ sent[1].sock = wsConnection
    /\ Length(sent[1].frame.content) = MAX_MESSAGE_LENGTH

(* C15: a submit never changes `messages`; `messages` changes only when    *)
(* openConversation resets it, a history response is applied, or the       *)
(* channel delivers an inbound event, the echo of a sent message included. *)
C15_SubmitLeavesMessages ==
    [][ /\ SendMessage => UNCHANGED messages
        /\ messages' # messages
           => lastOp'.op \in {"OpenConversation", "HistoryFulfilled", "SocketMessage"} ]_vars

\* A frame was sent and `messages` is still the fetched history
C15_Witness ==
    /\ lastOp.op = "SendMessage"
    /\ composerText = EmptyText
    /\ Len(sent) > 0
    /\ sent[Len(sent)].sock = wsConnection
    /\ Len(baseline) > 0
    /\ messages = baseline

(* C16: an inbound frame that is not JSON is not dropped by the channel:   *)
(* the listener hands onMessage exactly one payload, whose content is the  *)
(* raw text of the frame and whose sender_id and created_at are null; the  *)
(* session appends it as one message stamped with the arrival time.        *)
C16_RawFrameForwardedOnce ==
    (lastOp.op = "SocketMessage" /\ lastOp.frame.kind = "text")
    => /\ lastOp.handed = << [isNull |-> FALSE, sender_id |-> Null,
                              content |-> lastOp.frame.text,
                              created_at |-> NoTime] >>
       /\ lastOp.frame.text # ""
          => /\ Len(messages) = Len(baseline) + Len(Live)
             /\ messages[Len(messages)].content = lastOp.frame.text
             /\ messages[Len(messages)].sender_id = Null
             /\ messages[Len(messages)].created_at \in ArrivalTimes

\* A frame that is not JSON arrived after a JSON frame
C16_Witness ==
    /\ lastOp.op = "SocketMessage"
    /\ lastOp.frame.kind = "text"
    /\ lastOp.frame.text = "oops"
    /\ Len(delivered) = 2
    /\ delivered[1].kind = "object"
    /\ messages[Len(messages)].content = "oops"

\* The state of the connection under a channel, without its recorded history
Connection(sock) == << sock.conversationId, sock.readyState, sock.failed >>

(* C17: send(content) on a channel whose connection is not open           *)
(* (connecting, closing or closed) transmits nothing, does not throw and   *)
(* leaves the channel as it was; on an open connection it transmits        *)
(* exactly one frame {content}.                                            *)
C17_SendOnlyWhenOpen ==
    [][ \A s \in SocketIds : \A text \in Contents :
          ChannelSend(s, text)
          => /\ sockets' = sockets
             /\ lastOp'.outcome # "throws"
             /\ sent' = IF sockets[s].readyState = OPEN
                        THEN Append(sent, [sock |-> s, frame |-> [content |-> text]])
                        ELSE sent ]_vars

\* After a frame was sent on an open channel, send was called on a channel
\* that is still connecting
C17_Witness ==
    /\ lastOp.op = "ChannelSend"
    /\ sockets[lastOp.sock].readyState = CONNECTING
    /\ Len(sent) = 1
    /\ sent[1].sock # lastOp.sock

(* C18: close() is idempotent. A call on a channel that close() was        *)
(* already called on leaves the channel as the first call left it; after   *)
(* any call the connection is closing or closed, whether it had opened,    *)
(* never opened or already closed; and a channel dispatches at most one    *)
(* close event to the handlers.                                            *)
C18_CloseIsIdempotent ==
    [][ /\ \A s \in SocketIds :
              ChannelClose(s)
              => /\ sockets'[s].readyState \in {CLOSING, CLOSED}
                 /\ (sockets[s].readyState = CLOSED \/ sockets[s].closeCalled)
                    => \A t \in SocketIds : Connection(sockets'[t]) = Connection(sockets[t])
        /\ \A s \in 1 .. Len(sockets') : sockets'[s].closeEvents <= 1 ]_vars

\* close() was called again on a channel that has dispatched its close event
C18_Witness ==
    /\ lastOp.op = "ChannelClose"
    /\ lastOp.outcome = "called again"
    /\ sockets[lastOp.sock].readyState = CLOSED
    /\ sockets[lastOp.sock].closeEvents = 1

----------------------------------------------------------------------------
(* Helpers of the rendering properties *)

\* The messages of a sequence are in non-decreasing created_at order
Chronological(msgs) ==
    \A i, j \in 1 .. Len(msgs) : i < j => msgs[i].created_at <= msgs[j].created_at

\* What #messages-area holds while it shows the message list
Rendered == RenderMessages(messages)

IsSeparator(item) == item.kind = "date-separator"
IsMessage(item) == item.kind = "message"

\* The local calendar day of messages[i]
DayOfMessage(i) == ToDateString(messages[i].created_at)

(* C19: the number of date separators rendered equals the number of        *)
(* distinct local calendar days among the messages, and each separator     *)
(* stands immediately before the first message of its day. The fetched     *)
(* history is taken in chronological order, as the server promises it.     *)
C19_OneSeparatorPerDay ==
    (messagesArea = "rendered" /\ Chronological(baseline))
    => /\ Len(SelectSeq(Rendered, IsSeparator))
            = Cardinality({DayOfMessage(i) : i \in 1 .. Len(messages)})
       /\ \A k \in 1 .. Len(Rendered) :
             IsSeparator(Rendered[k])
             => /\ k < Len(Rendered)
                /\ IsMessage(Rendered[k + 1])
                /\ Rendered[k + 1].index = Rendered[k].index
                /\ \A j \in 1 .. Rendered[k].index - 1 :
                      DayOfMessage(j) # DayOfMessage(Rendered[k].index)

(* C20: whenever the message list is shown, the messages appear in         *)
(* non-decreasing created_at order, whatever the live pushes were (a push  *)
(* stamped earlier than the last stored message, or stamped with its       *)
(* arrival time). The fetched history is taken in chronological order.     *)
C20_RenderedChronologically ==
    (messagesArea = "rendered" /\ Chronological(baseline))
    => LET shown == SelectSeq(Rendered, IsMessage)
       IN  /\ Len(shown) = Len(messages)
           /\ \A i, j \in 1 .. Len(shown) :
                 i < j => messages[shown[i].index].created_at
                            <= messages[shown[j].index].created_at

(* C28: whenever the session holds a channel, the channel is bound to the  *)
(* session's current conversation_id, and that conversation is the one of  *)
(* the selected friend activeFriendId; so a submitted message goes to the  *)
(* selected friend. For every interleaving of overlapping calls.           *)
C28_ChannelBoundToSelectedFriend ==
    wsConnection # NoSocket
    => /\ sockets[wsConnection].conversationId = activeConversationId
       /\ activeConversationId = ConvOf(activeFriendId)

(* C29: a message appended from an inbound event carries the session's     *)
(* conversation_id of the moment of the append, the payload's sender_id    *)
(* and content, the payload's created_at or else the arrival time, and a   *)
(* locally generated id.                                                   *)
C29_AppendedMessageFields ==
    (lastOp.op = "SocketMessage" /\ HasContent(lastOp.frame))
    => LET m == messages[Len(messages)]
       IN  /\ m.conversation_id = activeConversationId
           /\ m.sender_id = lastOp.frame.sender_id
           /\ m.content = EventContent(lastOp.frame)
           /\ IF lastOp.frame.created_at # NoTime
              THEN m.created_at = lastOp.frame.created_at
              ELSE m.created_at \in ArrivalTimes
           /\ ~Fetched(m)

(* C30: the error presentation is entered only from loading, by the        *)
(* failure of the latest openConversation call, while the session holds    *)
(* no channel; the failure of a superseded call never shows it.            *)
C30_ErrorOnlyFromLoading ==
    [][ (messagesArea' = "error" /\ messagesArea # "error")
        => /\ messagesArea = "spinner"
           /\ wsConnection = NoSocket
           /\ lastOp'.call = Latest ]_vars

----------------------------------------------------------------------------
(* C21: loadFriends never propagates a failure to its caller: when the      *)
(* friend-list request rejects or yields an unusable response the cached    *)
(* friend list is empty afterwards (also when it was non-empty before),     *)
(* otherwise it equals the fetched list; and a failure of the profile or    *)
(* of the friend-list request during start-up does not stop init: the page  *)
(* becomes ready.                                                           *)

\* A response loadFriends can use: an object with a friends array.
Usable(body) == ~body.isNull /\ body.hasFriends

C21_LoadNeverFails ==
    /\ lastOp.op \in {"FriendsFulfilled", "FriendsRejected"}
       => /\ friends = IF lastOp.op = "FriendsFulfilled" /\ Usable(lastOp.args)
                       THEN lastOp.args.friends ELSE << >>
          /\ page = "ready"
    /\ lastOp.op \in {"ProfileFulfilled", "ProfileRejected"}
       => page = "await-friends"

\* A reload is rejected after a friend of the earlier list was clicked.
C21_Witness ==
    /\ lastOp.op = "FriendsRejected"
    /\ Len(calls) > 0
    /\ friends = << >>
    /\ page = "ready"

----------------------------------------------------------------------------
(* C27: a failure of the session check at start-up is fatal to the page:   *)
(* when GET /me rejects, or is fulfilled with a body init cannot read,      *)
(* init redirects and stops; from then on the friend list is not loaded,    *)
(* bindEvents has not run (the page never becomes ready), no friend item    *)
(* exists to click, and no openConversation call or channel exists.         *)

AuthFailed(op) ==
    \/ op.op = "MeRejected"
    \/ op.op = "MeFulfilled" /\ op.args.isNull

C27_AuthFailureIsFatal ==
    [][ /\ AuthFailed(lastOp') => page' = "redirected"
        /\ page = "redirected" => page' = "redirected"
        /\ page' = "redirected"
           => /\ friends' = << >>
              /\ friendListEl' = << >>
              /\ calls' = << >>
              /\ sockets' = << >>
              /\ wsConnection' = NoSocket
              /\ activeConversationId' = Null ]_vars

C27_Witness ==
    /\ page = "redirected"
    /\ lastOp.op = "MeRejected"
    /\ currentUser = User("me", << "m", "e" >>)
    /\ ~ENABLED NextPage

----------------------------------------------------------------------------
(* C23: the friends renderFriendList shows for a query are exactly the      *)
(* cached friends whose username or display name contains the query as a    *)
(* substring, letter case ignored, in the order they have in the cache;     *)
(* the empty query shows the whole cache; the cache itself is not changed.  *)

SameLetter(a, b) ==
    a = b \/ {a, b} \in { {"a", "A"}, {"b", "B"}, {"i", "I"}, {"l", "L"} }

ContainsIgnoringCase(text, query) ==
    \E k \in 0 .. Len(text) :
        /\ k + Len(query) <= Len(text)
        /\ \A i \in 1 .. Len(query) : SameLetter(text[k + i], query[i])

C23_FilterIsCaseInsensitiveSubsequence ==
    [][ lastOp'.op = "Search"
        => LET query == lastOp'.args
               out == lastOp'.result
               hits == { i \in 1 .. Len(friends) :
                           \/ ContainsIgnoringCase(friends[i].username, query)
                           \/ ContainsIgnoringCase(friends[i].display_name, query) }
               Nth(k) == CHOOSE i \in hits :
                            Cardinality({ j \in hits : j <= i }) = k
           IN  /\ Len(out) = Cardinality(hits)
               /\ \A k \in 1 .. Len(out) : out[k] = friends[Nth(k)]
               /\ query = EmptyString => out = friends
               /\ friendListEl' = FriendItems(out)
               /\ friends' = friends ]_vars

C23_Witness ==
    /\ lastOp.op = "Search"
    /\ lastOp.args = << "A" >>
    /\ friends = << Bo, Al >>
    /\ lastOp.result = << Bo, Al >>

----------------------------------------------------------------------------
(* C22: getFriendName(id) is the name of the cached friend whose friend_id  *)
(* is id (display_name, else username), and the fallback "User" for every   *)
(* id no cached friend has, among them null and the user's own id.          *)

\* The name the cached friend f is shown under.
ShownName(f) ==
    IF f.display_name # EmptyString THEN f.display_name
    ELSE IF f.username # EmptyString THEN f.username
    ELSE FallbackName

ResolvesTo(id, name) ==
    IF \E i \in 1 .. Len(friends) : friends[i].friend_id = id
    THEN \E i \in 1 .. Len(friends) :
            friends[i].friend_id = id /\ name = ShownName(friends[i])
    ELSE name = FallbackName

C22_ResolveName ==
    /\ lastOp.op = "getFriendName"
       => /\ ResolvesTo(lastOp.args, lastOp.result)
          /\ lastOp.args \in {Null, currentUser.user_id}
             => lastOp.result = FallbackName
    /\ lastOp.op = "renderMessages"
       => \A k \in 1 .. Len(messages) :
             ~lastOp.result[k].self
             => ResolvesTo(messages[k].sender_id, lastOp.result[k].senderName)

C22_Witness ==
    /\ lastOp.op = "getFriendName"
    /\ lastOp.args = "f1"
    /\ friends = << Bo, Cy, Al >>
    /\ lastOp.result = << "A", "L", "i" >>

----------------------------------------------------------------------------
(* C24: the avatar colour of a message of another sender depends on the    *)
(* sender id alone: the index abs(hash) mod 6 lies in 0..5, the colour is   *)
(* an entry of the palette, and any two rendered messages of one sender id  *)
(* (in one render or in two renders) have the same colour; a message of     *)
(* the user has the fixed palette entry of index 3.                         *)

Palette == { AVATAR_COLORS[i] : i \in 1 .. Len(AVATAR_COLORS) }

C24_AvatarColourBySender ==
    [][ (lastOp'.op = "renderMessages")
        => /\ \A k \in 1 .. Len(messages') :
                LET id == messages'[k].sender_id
                    element == lastOp'.result[k]
                IN  IF id = currentUser.user_id
                    THEN element.avatarColor = AVATAR_COLORS[4]
                    ELSE /\ element.avatarColor \in Palette
                         /\ ~Falsy(id)
                            => LET index == Remainder(MathAbs(Hash(CharCodes(id))),
                                                      Len(AVATAR_COLORS))
                               IN  /\ index \in 0 .. Len(AVATAR_COLORS) - 1
                                   /\ element.avatarColor = AVATAR_COLORS[index + 1]
                         /\ \A j \in 1 .. Len(messages') :
                               messages'[j].sender_id = id
                               => lastOp'.result[j].avatarColor = element.avatarColor
                         /\ lastOp.op = "renderMessages"
                            => \A j \in 1 .. Len(messages) :
                                  messages[j].sender_id = id
                                  => lastOp.result[j].avatarColor = element.avatarColor
       ]_vars

\* A sender whose hash is negative after the loop.
C24_Witness ==
    /\ lastOp.op = "renderMessages"
    /\ messages[1].sender_id = UuidA
    /\ Hash(CharCodes(UuidA)).hi < 0
    /\ lastOp.result[1].avatarColor = AVATAR_COLORS[5]

----------------------------------------------------------------------------
(* C26: the content of every message in `messages` reaches the rendered    *)
(* output only through escapeHtml: the markup of its bubble has no          *)
(* character that opens or closes a tag, and an HTML parser reads it back   *)
(* as a text equal to the content.                                          *)

StartsWith(str, prefix) ==
    Len(prefix) <= Len(str) /\ SubSeq(str, 1, Len(prefix)) = prefix

Drop(str, n) == SubSeq(str, n + 1, Len(str))

\* The text an HTML parser reads from markup without tags: the character
\* references are replaced by their characters.
RECURSIVE ParsedText(_)
ParsedText(markup) ==
    IF markup = EmptyString THEN EmptyString
    ELSE IF StartsWith(markup, << "&", "a", "m", "p", ";" >>)
         THEN << "&" >> \o ParsedText(Drop(markup, 5))
    ELSE IF StartsWith(markup, << "&", "l", "t", ";" >>)
         THEN << "<" >> \o ParsedText(Drop(markup, 4))
    ELSE IF StartsWith(markup, << "&", "g", "t", ";" >>)
         THEN << ">" >> \o ParsedText(Drop(markup, 4))
    ELSE IF StartsWith(markup, << "&", "q", "u", "o", "t", ";" >>)
         THEN << "\"" >> \o ParsedText(Drop(markup, 6))
    ELSE << Head(markup) >> \o ParsedText(Tail(markup))

C26_ContentIsEscaped ==
    lastOp.op = "renderMessages"
    => \A k \in 1 .. Len(messages) :
          LET bubble == lastOp.result[k].bubble
          IN  /\ \A i \in 1 .. Len(bubble) : bubble[i] \notin {"<", ">"}
              /\ ParsedText(bubble) = messages[k].content

C26_Witness ==
    /\ lastOp.op = "renderMessages"
    /\ messages[1].content = << "<", "b", ">" >>
    /\ lastOp.result[1].bubble = << "&", "l", "t", ";", "b", "&", "g", "t", ";" >>

----------------------------------------------------------------------------
(* C31: when every lookup and history request is eventually answered,      *)
(* every openConversation call eventually leaves loading: it ends with a    *)
(* channel it created or with the error shown, and the messages area does   *)
(* not show the spinner forever.                                            *)

Ended(c) == c \in CallIds /\ calls[c].pc \in {"done", "caught"}

C31_EveryCallLeavesLoading ==
    /\ \A c \in 1 .. MaxCalls : (c \in CallIds) ~> Ended(c)
    /\ (messagesArea = "spinner") ~> (messagesArea # "spinner")
    /\ [][ \A c \in CallIds :
              /\ (calls'[c].pc = "done" /\ calls[c].pc # "done")
                 => /\ wsConnection' # NoSocket
                    /\ sockets'[wsConnection'].by = c
                    /\ messagesArea' = "rendered"
              /\ (calls'[c].pc = "caught" /\ calls[c].pc # "caught")
                 => messagesArea' = "error" ]_vars

C31_Witness ==
    /\ Len(calls) = 2
    /\ calls[1].pc = "caught"
    /\ calls[2].pc = "done"
    /\ wsConnection # NoSocket
    /\ messagesArea = "rendered"

----------------------------------------------------------------------------
(* C32: the rendered list holds the messages in the order of `messages`,    *)
(* and a date separator stands immediately before the first message and    *)
(* before exactly those later messages whose local calendar day differs     *)
(* from the day of the message before them in `messages`; there is no       *)
(* other separator, so none between two adjacent messages of one day.       *)

\* The place of messages[i] in the rendered list
PlaceOf(i) == CHOOSE k \in 1 .. Len(Rendered) :
                 IsMessage(Rendered[k]) /\ Rendered[k].index = i

SeparatorBefore(i) == PlaceOf(i) > 1 /\ IsSeparator(Rendered[PlaceOf(i) - 1])

C32_SeparatorAtDayChange ==
    messages # << >>
    => /\ SelectSeq(Rendered, IsMessage)
             = [i \in 1 .. Len(messages) |-> [kind |-> "message", index |-> i]]
       /\ \A k \in 1 .. Len(Rendered) : IsMessage(Rendered[k]) \/ IsSeparator(Rendered[k])
       /\ Len(SelectSeq(Rendered, IsSeparator))
             = Cardinality({ i \in 1 .. Len(messages) : SeparatorBefore(i) })
       /\ \A i \in 1 .. Len(messages) :
             SeparatorBefore(i) <=> (i = 1 \/ DayOfMessage(i) # DayOfMessage(i - 1))

\* A live message of the day of the message before it, then one of a later day
C32_Witness ==
    /\ Len(messages) = 3
    /\ messages[1].created_at # messages[2].created_at
    /\ DayOfMessage(1) = DayOfMessage(2)
    /\ DayOfMessage(2) # DayOfMessage(3)
    /\ SeparatorBefore(1) /\ ~SeparatorBefore(2) /\ SeparatorBefore(3)

----------------------------------------------------------------------------
(* C33: a rendered message is classified as self exactly when its          *)
(* sender_id equals the user_id of the authenticated user, and is then      *)
(* named "You"; every other message, one whose sender_id is null           *)
(* included, is classified as other and carries the name the friend         *)
(* directory lookup gives for its sender_id.                                *)
C33_SelfIffOwnSender ==
    lastOp.op = "renderMessages"
    => /\ Len(lastOp.result) = Len(messages)
       /\ \A i \in 1 .. Len(messages) :
             /\ lastOp.result[i].self <=> (messages[i].sender_id = currentUser.user_id)
             /\ lastOp.result[i].self => lastOp.result[i].senderName = << "Y", "o", "u" >>
             /\ ~lastOp.result[i].self
                   => lastOp.result[i].senderName = GetFriendName(friends, messages[i].sender_id)
             /\ messages[i].sender_id = Null
                   => ~lastOp.result[i].self /\ lastOp.result[i].senderName = FallbackName

\* The user's own message followed by a message without a sender
C33_Witness ==
    /\ lastOp.op = "renderMessages"
    /\ Len(messages) = 2
    /\ messages[1].sender_id = currentUser.user_id /\ lastOp.result[1].self
    /\ messages[2].sender_id = Null /\ ~lastOp.result[2].self
    /\ lastOp.result[2].senderName = FallbackName

----------------------------------------------------------------------------
(* C34: whenever no openConversation call is awaiting a response, the      *)
(* session's conversation_id is unset or is the conversation of the        *)
(* selected friend; in particular a call that failed at the lookup does    *)
(* not leave the conversation_id of the conversation opened before it.     *)
C34_NoStaleConversationId ==
    Settled => activeConversationId \in { Null, ConvOf(activeFriendId) }

----------------------------------------------------------------------------
(* C35: a live message (one appended by onMessage) that is in `messages`   *)
(* is still in `messages` after every step that is not an invocation of    *)
(* openConversation; no response that resolves later removes or            *)
(* overwrites it.                                                           *)
LiveMessages(msgs) == { msgs[i] : i \in { j \in 1 .. Len(msgs) : ~Fetched(msgs[j]) } }

C35_LiveMessageKept ==
    [][ Len(calls') = Len(calls) => LiveMessages(messages) \subseteq LiveMessages(messages') ]_vars

----------------------------------------------------------------------------
(* C36: one inbound frame appends at most one message to `messages`, also  *)
(* when onMessage raises an error after the append: the listener hands     *)
(* the frame to onMessage once.                                             *)
C36_OneMessagePerFrame ==
    [][ lastOp'.op = "SocketMessage"
        => /\ Len(messages') <= Len(messages) + 1
           /\ Len(lastOp'.handed) = 1 ]_vars

----------------------------------------------------------------------------
(* C37: in the state right after openConversation is invoked, before any   *)
(* response is processed, close() has been called on the channel the       *)
(* session held (it is closing or closed), the session holds no channel,   *)
(* `messages` is empty and the messages area shows the loading spinner.    *)
C37_SynchronousReset ==
    lastOp.op = "OpenConversation"
    => /\ wsConnection = NoSocket
       /\ messages = << >>
       /\ messagesArea = "spinner"
       /\ calls[Latest].pc = "await-lookup"
       /\ lastOp.sock # NoSocket
             => /\ sockets[lastOp.sock].closeCalled
                /\ sockets[lastOp.sock].readyState \in {CLOSING, CLOSED}

\* A second conversation is opened while the first one, loaded and with a
\* frame received, still held its open channel
C37_Witness ==
    /\ lastOp.op = "OpenConversation"
    /\ Len(calls) = 2 /\ calls[1].history = "ok"
    /\ received > 0
    /\ lastOp.sock # NoSocket
    /\ sockets[lastOp.sock].readyState = CLOSING
    /\ wsConnection = NoSocket /\ messages = << >>

----------------------------------------------------------------------------
(* C38: in every reachable state activeFriendId is the friendId argument   *)
(* of the openConversation call invoked last (null before the first        *)
(* call), whatever the order in which the responses of overlapping calls   *)
(* resolve and whether or not a call failed.                                *)
C38_FriendOfLatestCall ==
    activeFriendId = IF Len(calls) = 0 THEN Null ELSE calls[Latest].friendId

\* Two overlapping calls for different friends: the later one has finished,
\* and the earlier one has just failed
C38_Witness ==
    /\ Len(calls) = 2
    /\ calls[1].friendId # calls[2].friendId
    /\ calls[2].pc = "done"
    /\ lastOp.op = "LookupRejected" /\ lastOp.call = 1
    /\ activeFriendId = calls[2].friendId

====
